---- MODULE Spec2Model ----
(***************************************************************************)
(* Runge_Kutta.py: a fixed-step RK4 integration of the Michaelis-Menten    *)
(* scheme E + S <-> ES -> E + P, each species advanced by its own scalar   *)
(* RK4 call against the pre-step values of the other three, followed by    *)
(* the velocity series handed to the plots.                                *)
(*                                                                         *)
(* Python's numbers are modelled as exact reals.  Every value the script   *)
(* computes from integer concentrations and rate constants and a step      *)
(* h = HNum / 100000 is a fraction whose denominator has only the prime    *)
(* factors 2, 3 and 5, so it is written exactly in radix Base = 30^3 with  *)
(* a radix point: [neg, mag, e] is (-1)^neg * (SUM mag[i] * Base^(i-1))    *)
(* / Base^e.  Floating-point rounding is not modelled.                     *)
(***************************************************************************)
EXTENDS Integers, Sequences, FiniteSets, TLC

VARIABLES
    h,           \* the time step (line 60)
    parameters,  \* the rate constants [k1, k2, k3] (line 62)
    t_end,       \* the end time (line 66)
    heap,        \* the list objects created so far; a reference is an index
    C0,          \* reference to the list of initial concentrations (line 64)
    C,           \* reference to the current concentrations (lines 70, 77)
    data,        \* the list of references appended so far (lines 72, 78)
    time,        \* np.arange(0, t_end, h) (line 68)
    it,          \* how many elements of `time` the for loop has consumed
    pc,          \* "Running" in the loop of lines 76-78, "Complete" after line 87
    C_E, C_S, C_ES, C_P, k3, V_P, Max_arg, total_time   \* lines 79-87

vars == <<h, parameters, t_end, heap, C0, C, data, time, it, pc,
          C_E, C_S, C_ES, C_P, k3, V_P, Max_arg, total_time>>

----------------------------------------------------------------------------
(* Exact arithmetic on radix-Base numbers.  The recursive helpers are      *)
(* functions, so that their arguments are evaluated once, before the call. *)

Base == 30 * 30 * 30

Limb(m, i) == IF i <= Len(m) THEN m[i] ELSE 0

MaxOf(a, b) == IF a >= b THEN a ELSE b

Zeros(n) == [i \in 1..n |-> 0]

\* a magnitude without its leading (most significant) zero limbs
MagTrim[m \in Any] ==
    IF m = <<>> THEN <<>>
    ELSE IF m[Len(m)] # 0 THEN m
    ELSE MagTrim[SubSeq(m, 1, Len(m) - 1)]

MagAddFrom[a \in Any, b \in Any, i \in Any, carry \in Any, acc \in Any] ==
    IF i > MaxOf(Len(a), Len(b))
    THEN IF carry = 0 THEN acc ELSE Append(acc, carry)
    ELSE LET s == Limb(a, i) + Limb(b, i) + carry
         IN  MagAddFrom[a, b, i + 1, s \div Base, Append(acc, s % Base)]

MagAdd[a \in Any, b \in Any] == MagAddFrom[a, b, 1, 0, <<>>]

MagCmpFrom[a \in Any, b \in Any, i \in Any] ==
    IF i = 0 THEN 0
    ELSE IF a[i] < b[i] THEN -1
    ELSE IF a[i] > b[i] THEN 1
    ELSE MagCmpFrom[a, b, i - 1]

\* -1, 0, 1 as a < b, a = b, a > b (both without leading zeros)
MagCmp[a \in Any, b \in Any] ==
    IF Len(a) < Len(b) THEN -1
    ELSE IF Len(a) > Len(b) THEN 1
    ELSE MagCmpFrom[a, b, Len(a)]

MagSubFrom[a \in Any, b \in Any, i \in Any, borrow \in Any, acc \in Any] ==
    IF i > Len(a) THEN MagTrim[acc]
    ELSE LET s == a[i] - Limb(b, i) - borrow
         IN  IF s < 0
             THEN MagSubFrom[a, b, i + 1, 1, Append(acc, s + Base)]
             ELSE MagSubFrom[a, b, i + 1, 0, Append(acc, s)]

\* a - b for a >= b
MagSub[a \in Any, b \in Any] == MagSubFrom[a, b, 1, 0, <<>>]

MagMulLimbFrom[a \in Any, d \in Any, i \in Any, carry \in Any, acc \in Any] ==
    IF i > Len(a)
    THEN IF carry = 0 THEN acc ELSE Append(acc, carry)
    ELSE LET s == a[i] * d + carry
         IN  MagMulLimbFrom[a, d, i + 1, s \div Base, Append(acc, s % Base)]

MagMulFrom[a \in Any, b \in Any, j \in Any, acc \in Any] ==
    IF j > Len(b) THEN acc
    ELSE IF b[j] = 0 THEN MagMulFrom[a, b, j + 1, acc]
    ELSE MagMulFrom[a, b, j + 1,
            MagAdd[acc, Zeros(j - 1) \o MagMulLimbFrom[a, b[j], 1, 0, <<>>]]]

MagMul[a \in Any, b \in Any] ==
    IF a = <<>> \/ b = <<>> THEN <<>> ELSE MagMulFrom[a, b, 1, <<>>]

MagOfNat[n \in Any] ==
    IF n = 0 THEN <<>> ELSE <<n % Base>> \o MagOfNat[n \div Base]

Zero == [neg |-> FALSE, mag |-> <<>>, e |-> 0]

\* the canonical form: no low zero limb behind the radix point, zero is Zero
Norm[x \in Any] ==
    IF x.mag = <<>> THEN Zero
    ELSE IF x.e > 0 /\ x.mag[1] = 0
         THEN Norm[[neg |-> x.neg, mag |-> Tail(x.mag), e |-> x.e - 1]]
         ELSE x

\* a Python int as a number
Num(n) == IF n < 0 THEN [neg |-> TRUE, mag |-> MagOfNat[-n], e |-> 0]
          ELSE [neg |-> FALSE, mag |-> MagOfNat[n], e |-> 0]

\* the magnitude of x written with e limbs behind the radix point (e >= x.e)
Scaled(x, e) == IF x.mag = <<>> THEN <<>> ELSE Zeros(e - x.e) \o x.mag

\* -x
Neg[x \in Any] == IF x.mag = <<>> THEN x ELSE [x EXCEPT !.neg = ~x.neg]

SignedSum[xneg \in Any, a \in Any, yneg \in Any, b \in Any, e \in Any, c \in Any] ==
    IF xneg = yneg THEN Norm[[neg |-> xneg, mag |-> MagAdd[a, b], e |-> e]]
    ELSE IF c = 0 THEN Zero
    ELSE IF c > 0 THEN Norm[[neg |-> xneg, mag |-> MagSub[a, b], e |-> e]]
    ELSE Norm[[neg |-> yneg, mag |-> MagSub[b, a], e |-> e]]

Aligned[xneg \in Any, a \in Any, yneg \in Any, b \in Any, e \in Any] ==
    SignedSum[xneg, a, yneg, b, e, MagCmp[a, b]]

\* x + y
Add[x \in Any, y \in Any] ==
    Aligned[x.neg, Scaled(x, MaxOf(x.e, y.e)),
            y.neg, Scaled(y, MaxOf(x.e, y.e)), MaxOf(x.e, y.e)]

\* x - y
Sub[x \in Any, y \in Any] == Add[x, Neg[y]]

\* x * y
Mul[x \in Any, y \in Any] ==
    Norm[[neg |-> x.neg # y.neg, mag |-> MagMul[x.mag, y.mag], e |-> x.e + y.e]]

\* x / d for an integer d > 0 that divides Base^2 (2, 6 and 100000 do)
Div[x \in Any, d \in Any] ==
    Norm[[neg |-> x.neg, mag |-> MagMul[x.mag, MagOfNat[(Base * Base) \div d]],
          e |-> x.e + 2]]

Sign[x \in Any] == IF x.mag = <<>> THEN 0 ELSE IF x.neg THEN -1 ELSE 1

\* x < y, x <= y
Lt(x, y) == Sign[Sub[x, y]] < 0
Le(x, y) == Sign[Sub[x, y]] <= 0

Abs[x \in Any] == [x EXCEPT !.neg = FALSE]

----------------------------------------------------------------------------
(* The derivative closures of reaction (lines 40-50).  k is the captured   *)
(* <<k1, k2, k3>>; the other parameters are the closure's own, in the      *)
(* order the source declares them.                                         *)

\* dE with S and ES exchanged in its parameter list (sensitivity check of
\* C9_DerivativesBoundBySpecies)
dE_swapped(k, t, E, S, ES, P) ==
    Add[Add[Mul[Mul[Neg[k[1]], E], ES], Mul[k[2], S]], Mul[k[3], S]]

dE(k, t, E, S, ES, P) ==
    Add[Add[Mul[Mul[Neg[k[1]], E], S], Mul[k[2], ES]], Mul[k[3], ES]]

\* dS with the sign of the binding term lost (sensitivity check of
\* C7_SubstrateNonIncreasing)
dS_sign(k, t, S, E, ES, P) ==
    Add[Mul[Mul[k[1], E], S], Mul[k[2], ES]]

dS(k, t, S, E, ES, P) ==
    Add[Mul[Mul[Neg[k[1]], E], S], Mul[k[2], ES]]

dES(k, t, ES, S, E, P) ==
    Sub[Sub[Mul[Mul[k[1], E], S], Mul[k[2], ES]], Mul[k[3], ES]]

dP(k, t, P, S, ES, E) ==
    Mul[k[3], ES]

\* the positional call f(t, y, y1, y2, y3) of a closure f = [fn, k]
Call[f \in Any, t \in Any, y \in Any, y1 \in Any, y2 \in Any, y3 \in Any] ==
    CASE f.fn = "dE"  -> dE(f.k, t, y, y1, y2, y3)
      [] f.fn = "dS"  -> dS(f.k, t, y, y1, y2, y3)
      [] f.fn = "dES" -> dES(f.k, t, y, y1, y2, y3)
      [] f.fn = "dP"  -> dP(f.k, t, y, y1, y2, y3)

\* RK4 with the weights 1, 1, 1, 1 in place of 1, 2, 2, 1 (sensitivity check
\* of C10_ProductIsEulerStep)
RK4_unweighted(y, y1, y2, y3, h_, f, t) ==
    LET k_1 == Call[f, t, y, y1, y2, y3]
        k_2 == Call[f, Add[t, Div[h_, 2]], Add[y, Mul[Div[h_, 2], k_1]], y1, y2, y3]
        k_3 == Call[f, Add[t, Div[h_, 2]], Add[y, Mul[Div[h_, 2], k_2]], y1, y2, y3]
        k_4 == Call[f, Add[t, h_], Add[y, Mul[h_, k_3]], y1, y2, y3]
    IN  Add[y, Mul[Div[h_, 6], Add[Add[Add[k_1, k_2], k_3], k_4]]]

\* RK4 (lines 12-27)
RK4(y, y1, y2, y3, h_, f, t) ==
    LET k_1 == Call[f, t, y, y1, y2, y3]
        k_2 == Call[f, Add[t, Div[h_, 2]], Add[y, Mul[Div[h_, 2], k_1]], y1, y2, y3]
        k_3 == Call[f, Add[t, Div[h_, 2]], Add[y, Mul[Div[h_, 2], k_2]], y1, y2, y3]
        k_4 == Call[f, Add[t, h_], Add[y, Mul[h_, k_3]], y1, y2, y3]
    IN  Add[y, Mul[Div[h_, 6],
                   Add[Add[Add[k_1, Mul[Num(2), k_2]], Mul[Num(2), k_3]], k_4]]]

Species == <<"E", "S", "ES", "P">>

NextName(X) ==
    CASE X = "E" -> "E_next" [] X = "S" -> "S_next"
      [] X = "ES" -> "ES_next" [] X = "P" -> "P_next"

\* the assignment `name = v` to a local of reaction
Assign(env, name, v) == (name :> v) @@ env

\* the right-hand side of the statement for X_next (lines 52-55) on locals env
UpdateValue(env, X, h_, k) ==
    CASE X = "E"  -> RK4(env["E"], env["S"], env["ES"], env["P"], h_,
                         [fn |-> "dE", k |-> k], Zero)
      [] X = "S"  -> RK4(env["S"], env["E"], env["ES"], env["P"], h_,
                         [fn |-> "dS", k |-> k], Zero)
      [] X = "ES" -> RK4(env["ES"], env["S"], env["E"], env["P"], h_,
                         [fn |-> "dES", k |-> k], Zero)
      [] X = "P"  -> RK4(env["P"], env["S"], env["ES"], env["E"], h_,
                         [fn |-> "dP", k |-> k], Zero)

\* the statement written as X = X_next = RK4(...): the later statements read
\* the new value (sensitivity check of C4_SameSnapshot)
SubUpdate_threaded(env, X, h_, k) ==
    Assign(Assign(env, NextName(X), UpdateValue(env, X, h_, k)),
           X, UpdateValue(env, X, h_, k))

\* the statement X_next = RK4(...) of lines 52-55
SubUpdate(env, X, h_, k) == Assign(env, NextName(X), UpdateValue(env, X, h_, k))

\* the statements for the species of `order`, one after the other
RunUpdates[env \in Any, order \in Any, h_ \in Any, k \in Any] ==
    IF order = <<>> THEN env
    ELSE RunUpdates[SubUpdate(env, Head(order), h_, k), Tail(order), h_, k]

\* the locals after lines 37-38: E, S, ES, P = C0
Unpack(C0_) == ("E" :> C0_[1]) @@ ("S" :> C0_[2]) @@ ("ES" :> C0_[3]) @@ ("P" :> C0_[4])

\* return [E_next, S_next, ES_next, P_next] (line 56)
Returned[env \in Any] == <<env["E_next"], env["S_next"], env["ES_next"], env["P_next"]>>

\* the body of reaction with its four statements of lines 52-55 run in `order`
reaction_in_order(C0_, h_, parameters_, order) ==
    Returned[RunUpdates[Unpack(C0_), order, h_,
                        <<parameters_[1], parameters_[2], parameters_[3]>>]]

\* reaction (lines 30-56): the value of the list it returns
reaction(C0_, h_, parameters_) == reaction_in_order(C0_, h_, parameters_, Species)

\* reaction overwriting the list it was given and returning it (sensitivity
\* check of C5_HistoryImmutable)
reaction_call_inplace(heap_, ref, h_, parameters_) ==
    [heap |-> [heap_ EXCEPT ![ref] = reaction(heap_[ref], h_, parameters_)],
     ret  |-> ref]

\* the call of line 77 on the heap: reaction reads the list at `ref` and
\* returns a list it has newly built (line 56)
reaction_call(heap_, ref, h_, parameters_) ==
    [heap |-> Append(heap_, reaction(heap_[ref], h_, parameters_)),
     ret  |-> Len(heap_) + 1]

arangeThrough[start \in Any, stop \in Any, step \in Any, acc \in Any] ==
    IF Le(Add[start, Mul[Num(Len(acc)), step]], stop)
    THEN arangeThrough[start, stop, step,
                       Append(acc, Add[start, Mul[Num(Len(acc)), step]])]
    ELSE acc

\* an arange that includes stop (sensitivity check of C2_LengthIsCeiling)
arange_inclusive(start, stop, step) == arangeThrough[start, stop, step, <<>>]

arangeFrom[start \in Any, stop \in Any, step \in Any, acc \in Any] ==
    IF Lt(Add[start, Mul[Num(Len(acc)), step]], stop)
    THEN arangeFrom[start, stop, step,
                    Append(acc, Add[start, Mul[Num(Len(acc)), step]])]
    ELSE acc

\* np.arange(start, stop, step) for step > 0: start + i*step while below stop
arange(start, stop, step) == arangeFrom[start, stop, step, <<>>]

argminFrom[a \in Any, i \in Any, best \in Any] ==
    IF i > Len(a) THEN best
    ELSE IF Lt(a[i], a[best]) THEN argminFrom[a, i + 1, i]
    ELSE argminFrom[a, i + 1, best]

\* the index of the first minimum (sensitivity check of C8_VmaxInterior)
argmin(a) == argminFrom[a, 2, 1] - 1

argmaxFrom[a \in Any, i \in Any, best \in Any] ==
    IF i > Len(a) THEN best
    ELSE IF Lt(a[best], a[i]) THEN argmaxFrom[a, i + 1, i]
    ELSE argmaxFrom[a, i + 1, best]

\* np.argmax of a non-empty array: the 0-based index of the first maximum
argmax(a) == argmaxFrom[a, 2, 1] - 1

\* data_np[:, j] of data_np = np.array(data) (lines 79-83), j 0-based
Column(heap_, data_, j) == [i \in 1..Len(data_) |-> heap_[data_[i]][j + 1]]

----------------------------------------------------------------------------
(* The script: lines 60-72 set up, 76-78 loop, 79-87 derive the series.    *)

HDen == 100000

\* the steps h = n / 100000 the model runs with: 0.00001 (line 60) and 0.001
HNums == {1, 100}

\* t_end ranges over the first MaxTicks multiples of h / 2
MaxTicks == 3

\* line 64 and three other initial concentrations [E, S, ES, P]
InitialConcentrations ==
    {<<1, 10, 0, 0>>, <<2, 3, 5, 7>>, <<0, 0, 1, 0>>, <<1, 0, 0, 2>>}

\* line 62 and two other triples of rate constants [k1, k2, k3]
RateConstants == {<<100, 600, 150>>, <<1, 2, 3>>, <<2, 0, 1>>}

Nums(v) == [i \in 1..Len(v) |-> Num(v[i])]

Init ==
    /\ \E n \in HNums : h = Div[Num(n), HDen]
    /\ \E p \in RateConstants : parameters = Nums(p)
    /\ \E c \in InitialConcentrations : heap = <<Nums(c)>>
    /\ \E m \in 1..MaxTicks : t_end = Div[Mul[Num(m), h], 2]
    /\ C0 = 1
    /\ time = arange(Zero, t_end, h)
    /\ C = C0
    /\ data = <<C>>
    /\ it = 0
    /\ pc = "Running"
    /\ C_E = <<>> /\ C_S = <<>> /\ C_ES = <<>> /\ C_P = <<>>
    /\ k3 = Zero /\ V_P = <<>> /\ Max_arg = -1 /\ total_time = <<>>

\* one pass of the for loop (lines 76-78)
Step ==
    /\ pc = "Running"
    /\ it < Len(time)
    /\ \E r \in {reaction_call(heap, C, h, parameters)} :
           /\ heap' = r.heap
           /\ C' = r.ret
           /\ data' = Append(data, r.ret)
    /\ it' = it + 1
    /\ UNCHANGED <<h, parameters, t_end, C0, time, pc,
                   C_E, C_S, C_ES, C_P, k3, V_P, Max_arg, total_time>>

\* the loop left one element early (sensitivity check of C3_TwoStateMachine)
LoopExhausted_early == pc = "Running" /\ it >= Len(time) - 1

\* the for loop of line 76 has consumed every element of `time`
LoopExhausted == pc = "Running" /\ it = Len(time)

\* the loop is exhausted: lines 79-87
Finish ==
    /\ LoopExhausted
    /\ LET data_np == [j \in 0..3 |-> Column(heap, data, j)]
           k3_     == parameters[1 + 1]
           V_P_    == [i \in 1..Len(data) |-> Mul[k3_, data_np[2][i]]]
       IN  /\ C_E' = data_np[0]
           /\ C_S' = data_np[1]
           /\ C_ES' = data_np[2]
           /\ C_P' = data_np[3]
           /\ k3' = k3_
           /\ V_P' = V_P_
           /\ Max_arg' = argmax(V_P_)
    /\ total_time' = arange(Zero, Mul[h, Num(Len(data))], h)
    /\ pc' = "Complete"
    /\ UNCHANGED <<h, parameters, t_end, heap, C0, C, data, time, it>>

Next == Step \/ Finish

Spec == Init /\ [][Next]_vars

\* the script is one sequential thread: it keeps running until line 87 is done
FairSpec == Spec /\ WF_vars(Next)

----------------------------------------------------------------------------
(* Properties.                                                             *)

\* the concentration vector of series entry i (1-based)
Val(i) == heap[data[i]]

\* the pairs (i, i+1) of consecutive series entries
Pairs == 1..(Len(data) - 1)

\* the pair made by the step just taken: every pair of a run is this pair in
\* the state that follows its step
LastPair == IF pc = "Running" /\ Len(data) >= 2 THEN {Len(data) - 1} ELSE {}

\* the configuration of lines 60-64: h, rate constants, initial concentrations
DefaultRun ==
    /\ h = Div[Num(1), HDen]
    /\ parameters = Nums(<<100, 600, 150>>)
    /\ heap[C0] = Nums(<<1, 10, 0, 0>>)

Positive(x) == Sign[x] > 0

CeilFrom[a \in Any, b \in Any, n \in Any] ==
    IF Le(a, Mul[Num(n), b]) THEN n ELSE CeilFrom[a, b, n + 1]

FloorFrom[a \in Any, b \in Any, n \in Any] ==
    IF Lt(a, Mul[Num(n + 1), b]) THEN n ELSE FloorFrom[a, b, n + 1]

\* ceil(a / b) and floor(a / b) for a >= 0, b > 0
CeilDiv(a, b) == CeilFrom[a, b, 0]
FloorDiv(a, b) == FloorFrom[a, b, 0]

\* C1: every velocity sample handed to the plots is k3 * ES of that sample,
\* k3 being the third rate constant of (k1, k2, k3).
C1_VelocityIsK3TimesES ==
    pc = "Complete" =>
        \A i \in 1..Len(data) : V_P[i] = Mul[parameters[3], Val(i)[3]]

\* C2 as stated: when the loop has finished the series holds
\* floor(t_end / h) + 1 vectors.
C2_LengthIsFloor ==
    pc = "Complete" => Len(data) = FloorDiv(t_end, h) + 1

\* C2 amended: when the loop has finished the series holds ceil(t_end / h) + 1
\* vectors, entry i (0-based) is C0 advanced i times and total_time[i] is i*h.
C2_LengthIsCeiling ==
    pc = "Complete" =>
        /\ Len(data) = CeilDiv(t_end, h) + 1
        /\ Val(1) = heap[C0]
        /\ \A i \in Pairs : Val(i + 1) = reaction(Val(i), h, parameters)
        /\ Len(total_time) = Len(data)
        /\ \A i \in 1..Len(data) : total_time[i] = Mul[Num(i - 1), h]

\* a finished run whose t_end is not a multiple of h
C2_Witness ==
    /\ pc = "Complete"
    /\ Len(data) = 3
    /\ CeilDiv(t_end, h) # FloorDiv(t_end, h)

\* C3: a run is Running or Complete; the advancer is invoked only in Running
\* and only at a simulated time below t_end; the number of steps is the length
\* of `time`, fixed before the loop; the run reaches Complete; once Complete
\* nothing is appended.
C3_TwoStateMachine ==
    /\ [](pc \in {"Running", "Complete"})
    /\ [][time' = time /\ t_end' = t_end /\ h' = h]_vars
    /\ [][data' # data =>
            /\ pc = "Running" /\ pc' = "Running"
            /\ it < Len(time) /\ it' = it + 1
            /\ Lt(time[it + 1], t_end)
            /\ Len(data') = Len(data) + 1]_vars
    /\ [](pc = "Complete" => it = Len(time) /\ Len(data) = Len(time) + 1)
    /\ [][pc = "Complete" => pc' = "Complete" /\ data' = data /\ heap' = heap]_vars
    /\ <>(pc = "Complete")

\* a run that is Complete after two steps
C3_Witness == pc = "Complete" /\ it = 2 /\ Len(data) = 3

\* the orders in which the four statements of lines 52-55 can run
Orders == {[i \in 1..4 |-> Species[p[i]]] : p \in Permutations(1..4)}

\* C4: after every step the new entry is what reaction returns from the entry
\* before it whatever the order of its four sub-updates, and each component is
\* the sub-update run alone on the pre-step vector.
C4_SameSnapshot ==
    \A i \in LastPair :
        /\ \A order \in Orders :
              reaction_in_order(Val(i), h, parameters, order) = Val(i + 1)
        /\ \A j \in 1..4 :
              Val(i + 1)[j] = UpdateValue(Unpack(Val(i)), Species[j], h,
                                          <<parameters[1], parameters[2], parameters[3]>>)

\* a step that changed all four concentrations
C4_Witness ==
    /\ Len(data) >= 2
    /\ \A j \in 1..4 : Val(Len(data))[j] # Val(Len(data) - 1)[j]

\* C5: no step changes the rate constants, the list reaction was given, the
\* initial conditions or any entry already in the series; entries are only
\* appended, and the appended list is a new one.
C5_HistoryImmutable ==
    [][/\ parameters' = parameters
       /\ heap'[C] = heap[C]
       /\ C0' = C0 /\ heap'[C0'] = heap[C0]
       /\ data[1] = C0
       /\ Len(data') >= Len(data)
       /\ \A j \in 1..Len(data) : data'[j] = data[j] /\ heap'[data'[j]] = heap[data[j]]
       /\ data' # data =>
            /\ data' = Append(data, C')
            /\ \A j \in 1..Len(data) : data[j] # C']_vars

\* two steps taken, the first entry still differing from the latest
C5_Witness ==
    /\ Len(data) = 3
    /\ data[1] = C0
    /\ Val(1) # Val(3)
    /\ Val(2) # Val(3)

\* |after - before| < 10^-6 * |before|
RelChangeBelowTol(before, after) ==
    Lt(Mul[Abs[Sub[after, before]], Num(1000000)], Abs[before])

\* C6: in the default run every step changes E + ES and S + ES + P by less
\* than 10^-6 relative.
C6_ConservationPerStep ==
    DefaultRun =>
        \A i \in Pairs :
            /\ RelChangeBelowTol(Add[Val(i)[1], Val(i)[3]],
                                 Add[Val(i + 1)[1], Val(i + 1)[3]])
            /\ RelChangeBelowTol(Add[Add[Val(i)[2], Val(i)[3]], Val(i)[4]],
                                 Add[Add[Val(i + 1)[2], Val(i + 1)[3]], Val(i + 1)[4]])

SpecDerivative(X, k, v) ==
    CASE X = "E"  -> Add[Add[Neg[Mul[Mul[k[1], v["E"]], v["S"]]],
                             Mul[k[2], v["ES"]]], Mul[k[3], v["ES"]]]
      [] X = "S"  -> Add[Neg[Mul[Mul[k[1], v["E"]], v["S"]]], Mul[k[2], v["ES"]]]
      [] X = "ES" -> Sub[Sub[Mul[Mul[k[1], v["E"]], v["S"]], Mul[k[2], v["ES"]]],
                         Mul[k[3], v["ES"]]]
      [] X = "P"  -> Mul[k[3], v["ES"]]

\* v with species X moved to x, the companions left at their values
With(v, X, x) == [v EXCEPT ![X] = x]

\* the RK4 update of species X alone, every species bound by name
SpecRK4[X \in Any, k \in Any, v \in Any, hh \in Any] ==
    LET s1 == SpecDerivative(X, k, v)
        s2 == SpecDerivative(X, k, With(v, X, Add[v[X], Mul[Div[hh, 2], s1]]))
        s3 == SpecDerivative(X, k, With(v, X, Add[v[X], Mul[Div[hh, 2], s2]]))
        s4 == SpecDerivative(X, k, With(v, X, Add[v[X], Mul[hh, s3]]))
    IN  Add[v[X], Mul[Div[hh, 6],
                      Add[Add[Add[s1, Mul[Num(2), s2]], Mul[Num(2), s3]], s4]]]

\* C9: after every step each component of the new entry is the RK4 update of
\* that species under the specification's derivative, with E, S, ES, P
\* denoting those species' values at every stage.
C9_DerivativesBoundBySpecies ==
    \A i \in LastPair : \A j \in 1..4 :
        Val(i + 1)[j] = SpecRK4[Species[j], parameters, Unpack(Val(i)), h]

\* a step from a vector whose E, S, ES are pairwise different and not zero
C9_Witness ==
    /\ Len(data) >= 2
    /\ Positive(Val(1)[1]) /\ Positive(Val(1)[2]) /\ Positive(Val(1)[3])
    /\ Val(1)[1] # Val(1)[2] /\ Val(1)[1] # Val(1)[3] /\ Val(1)[2] # Val(1)[3]
    /\ \A j \in 1..4 : Val(2)[j] # Val(1)[j]

\* C10: the slope of P does not depend on P, the product update is the
\* forward-Euler step P + h*k3*ES, and P does not decrease over a step taken
\* with h > 0, k3 >= 0 and ES >= 0.
C10_ProductIsEulerStep ==
    \A i \in Pairs :
        /\ \A y \in {Val(i)[4], Val(i + 1)[4], Num(1)} :
              dP(parameters, Zero, y, Val(i)[2], Val(i)[3], Val(i)[1])
                  = dP(parameters, Zero, Val(i)[4], Val(i)[2], Val(i)[3], Val(i)[1])
        /\ Val(i + 1)[4] = Add[Val(i)[4], Mul[Mul[h, parameters[3]], Val(i)[3]]]
        /\ (Positive(h) /\ Sign[parameters[3]] >= 0 /\ Sign[Val(i)[3]] >= 0)
              => Le(Val(i)[4], Val(i + 1)[4])

\* a step with k3 > 0 and ES > 0 that raised P
C10_Witness ==
    /\ Len(data) >= 2
    /\ Positive(parameters[3])
    /\ Positive(Val(Len(data) - 1)[3])
    /\ Lt(Val(Len(data) - 1)[4], Val(Len(data))[4])

====
